---- MODULE Spec2Model ----
(***************************************************************************)
(* Model of src/lib/crypto.ts: password based file encryption with         *)
(* PBKDF2 + AES-GCM and a versioned container                              *)
(*   [4 bytes version][16 bytes salt][12 bytes IV][ciphertext || tag].     *)
(*                                                                         *)
(* encryptFile and decryptFile are async functions.  Every invocation is a *)
(* slot of `calls`; one action is the code that runs between two await     *)
(* points of one invocation (JavaScript runs it without interruption).     *)
(*                                                                         *)
(* The Web Crypto primitives are platform code.  They are modelled         *)
(* symbolically: a byte of AEAD output is a term "byte i of PRF(h) XOR x", *)
(* and outputs of the pseudo random functions for different inputs are     *)
(* different terms.  crypto.getRandomValues never returns a value twice.   *)
(*                                                                         *)
(* The page that calls them (src/app/page.tsx) is the variable `ui`: one   *)
(* action is one run of an event handler up to its await or its end, and   *)
(* the handler goes on, in an action of its own, once the invocation it    *)
(* awaits has settled.                                                     *)
(***************************************************************************)
EXTENDS Integers, Sequences, FiniteSets, TLC

\* ------------------------------------------------------------------------
\* Constants of crypto.ts
SALT_LENGTH == 16
IV_LENGTH == 12
AUTH_TAG_LENGTH == 16
PBKDF2_ITERATIONS == 310000
KEY_LENGTH == 256
FORMAT_VERSION == 1
VERSION_LENGTH == 4
MIN_SIZE == 4 + SALT_LENGTH + IV_LENGTH + AUTH_TAG_LENGTH

\* ------------------------------------------------------------------------
\* Bounds of the model
MaxCalls == 2        \* invocations that can be in flight together
MaxPlainLen == 1     \* longest plaintext file
MaxRandom == 1       \* getRandomValues draws a leading byte in 0..MaxRandom
MaxTimers == 1       \* delayed resets of the form that can be pending together

\* ------------------------------------------------------------------------
\* Bytes and bit operations
RECURSIVE Xor(_, _)
Xor(a, b) ==
  IF a = 0 THEN b
  ELSE IF b = 0 THEN a
  ELSE (((a % 2) + (b % 2)) % 2) + 2 * Xor(a \div 2, b \div 2)

Pow2(k) == CASE k = 0 -> 1 [] k = 1 -> 2 [] k = 2 -> 4 [] k = 3 -> 8
             [] k = 4 -> 16 [] k = 5 -> 32 [] k = 6 -> 64 [] k = 7 -> 128

Zeros(n) == [i \in 1..n |-> 0]

Min(a, b) == IF a < b THEN a ELSE b

\* ArrayBuffer.slice(from, to) with 0-based offsets, clamped to the buffer
Slice(buf, from, to) == SubSeq(buf, Min(from, Len(buf)) + 1, Min(to, Len(buf)))

\* (variant: only the two low bytes are read)
GetUint16LE(buf) == [lo |-> buf[1] + 256 * buf[2], hi |-> 0]

\* DataView.getUint32(0, true): the little-endian 32-bit value, kept as its
\* two 16-bit halves (the full value does not fit a model integer)
GetUint32LE(buf) ==
  [lo |-> buf[1] + 256 * buf[2], hi |-> buf[3] + 256 * buf[4]]

Uint32(n) == [lo |-> n % 65536, hi |-> n \div 65536]

\* versionBytes[k] = (FORMAT_VERSION >> 8k) & 0xff
VersionBytes ==
  << FORMAT_VERSION % 256,
     (FORMAT_VERSION \div 256) % 256,
     (FORMAT_VERSION \div 65536) % 256,
     (FORMAT_VERSION \div 16777216) % 256 >>

\* ------------------------------------------------------------------------
\* new TextEncoder().encode(password): a JavaScript string is a sequence of
\* UTF-16 code units; a surrogate pair is one code point, an unpaired
\* surrogate is replaced by U+FFFD, and code points are written as UTF-8.
IsHighSurrogate(u) == u >= 55296 /\ u <= 56319
IsLowSurrogate(u) == u >= 56320 /\ u <= 57343

Utf8(cp) ==
  IF cp < 128 THEN << cp >>
  ELSE IF cp < 2048 THEN << 192 + (cp \div 64), 128 + (cp % 64) >>
  ELSE IF cp < 65536
    THEN << 224 + (cp \div 4096), 128 + ((cp \div 64) % 64), 128 + (cp % 64) >>
  ELSE << 240 + (cp \div 262144), 128 + ((cp \div 4096) % 64),
          128 + ((cp \div 64) % 64), 128 + (cp % 64) >>

RECURSIVE TextEncode(_)
TextEncode(s) ==
  IF Len(s) = 0 THEN << >>
  ELSE IF IsHighSurrogate(s[1]) /\ Len(s) >= 2 /\ IsLowSurrogate(s[2])
    THEN Utf8(65536 + (s[1] - 55296) * 1024 + (s[2] - 56320))
           \o TextEncode(SubSeq(s, 3, Len(s)))
  ELSE IF IsHighSurrogate(s[1]) \/ IsLowSurrogate(s[1])
    THEN Utf8(65533) \o TextEncode(Tail(s))
  ELSE Utf8(s[1]) \o TextEncode(Tail(s))

\* ------------------------------------------------------------------------
\* Web Crypto primitives (symbolic)

\* A CryptoKey is opaque and not extractable: the PBKDF2 output for
\* (password bytes, salt, iterations, hash) is the term of its inputs.
NoKey == [pw |-> << >>, salt |-> << >>, iterations |-> 0, length |-> 0]

\* crypto.subtle.importKey("raw", passwordBuffer, "PBKDF2", ...)
ImportKey(passwordBuffer) == passwordBuffer

\* (variant: the key material is not the password)
Pbkdf2NoPassword(keyMaterial, salt) ==
  [pw |-> << >>, salt |-> salt,
   iterations |-> PBKDF2_ITERATIONS, length |-> KEY_LENGTH]

\* crypto.subtle.deriveKey({PBKDF2, salt, iterations, SHA-256}, keyMaterial,
\*                         {AES-GCM, length}, ...)
Pbkdf2(keyMaterial, salt) ==
  [pw |-> keyMaterial, salt |-> salt,
   iterations |-> PBKDF2_ITERATIONS, length |-> KEY_LENGTH]

\* Terms the pseudo random functions of AES-GCM are applied to
ConstTerm == [f |-> "const", key |-> NoKey, iv |-> << >>, ct |-> << >>]
KeystreamTerm(key, iv) == [f |-> "ctr", key |-> key, iv |-> iv, ct |-> << >>]
TagTerm(key, iv, ct) == [f |-> "ghash", key |-> key, iv |-> iv, ct |-> ct]

\* A byte of the ciphertext region: byte i of PRF(h), XOR x.
SymByte(h, i, x) == [h |-> h, i |-> i, x |-> x]
\* A plain byte b stored in the ciphertext region
ConstByte(b) == SymByte(ConstTerm, 0, b)

\* Byte read back when the keystream of another (key, iv) is removed
Garbled == 0 - 1

\* AES-GCM tag over the ciphertext, no additional data; tagLength in bits
GcmTag(key, iv, ct, tagLength) ==
  [i \in 1..(tagLength \div 8) |-> SymByte(TagTerm(key, iv, ct), i, 0)]

\* crypto.subtle.encrypt({AES-GCM, iv, tagLength}, key, data):
\* ciphertext of the same length as data, followed by the tag
AesGcmEncrypt(key, iv, tagLength, data) ==
  LET ct == [i \in 1..Len(data) |-> SymByte(KeystreamTerm(key, iv), i, data[i])]
  IN  ct \o GcmTag(key, iv, ct, tagLength)

\* (variant: a cipher mode without authentication; the tag is ignored)
AesCtrDecrypt(key, iv, tagLength, data) ==
  LET n == Len(data) - (tagLength \div 8) IN
  [ok |-> TRUE,
   bytes |-> [i \in 1..n |->
               IF data[i].h = KeystreamTerm(key, iv) /\ data[i].i = i
                 THEN data[i].x ELSE Garbled]]

\* crypto.subtle.decrypt({AES-GCM, iv, tagLength}, key, data): the tag is the
\* trailing tagLength bits; the plaintext is released only if it verifies.
AesGcmDecrypt(key, iv, tagLength, data) ==
  LET t  == tagLength \div 8
      n  == Len(data) - t
      ct == SubSeq(data, 1, n)
      tag == SubSeq(data, n + 1, Len(data))
      plain == [i \in 1..n |->
                 IF ct[i].h = KeystreamTerm(key, iv) /\ ct[i].i = i
                   THEN ct[i].x ELSE Garbled]
  IN  IF n < 0 THEN [ok |-> FALSE, bytes |-> << >>]
      ELSE IF tag # GcmTag(key, iv, ct, tagLength)
        THEN [ok |-> FALSE, bytes |-> << >>]
      ELSE [ok |-> TRUE, bytes |-> plain]

\* ------------------------------------------------------------------------
\* Errors and promise outcomes
NoVersion == [lo |-> 0 - 1, hi |-> 0 - 1]

Pending == [state |-> "pending", value |-> << >>, name |-> "", message |-> "",
            arg |-> NoVersion]
Fulfilled(bytes) ==
  [state |-> "fulfilled", value |-> bytes, name |-> "", message |-> "",
   arg |-> NoVersion]
\* new Error(message); arg is the value interpolated into the message
Rejected(name, message, arg) ==
  [state |-> "rejected", value |-> << >>, name |-> name, message |-> message,
   arg |-> arg]

KeyDerivationError == Rejected("Error", "Failed to generate encryption key", NoVersion)
ReadError == Rejected("Error", "Failed to read file", NoVersion)
EncryptError ==
  Rejected("Error",
           "Failed to encrypt file. The file may be too large or corrupted.",
           NoVersion)
TooSmallError ==
  Rejected("Error", "Invalid encrypted file format: file is too small", NoVersion)
UnsupportedVersionError(formatVersion) ==
  Rejected("Error", "Unsupported file format version: ", formatVersion)
DecryptError ==
  Rejected("Error",
           "Failed to decrypt file. The password may be incorrect or the file may be corrupted.",
           NoVersion)
\* The rejection of a Web Crypto promise itself (a DOMException)
PlatformError == Rejected("OperationError", "", NoVersion)

\* Values thrown that are instances of Error (a DOMException is one)
IsError(error) == error.name \in {"Error", "OperationError"}

\* The outer catch of encryptFile and decryptFile:
\* if (error instanceof Error) throw error else throw new Error("An unknown ...")
Rethrow(error) ==
  IF IsError(error) THEN error
  ELSE Rejected("Error", "An unknown error occurred", NoVersion)

\* catch (decryptError) { throw new Error("Failed to decrypt file. ...") }:
\* what crypto.subtle.decrypt reported is not passed on
DecryptFailure(r) == DecryptError

\* ------------------------------------------------------------------------
\* Container assembly and parsing

\* Uint8Array.set(src, offset)
SetAt(arr, src, offset) ==
  [k \in 1..Len(arr) |->
     IF k > offset /\ k <= offset + Len(src) THEN src[k - offset] ELSE arr[k]]

\* (variant: the IV is written before the salt)
AssembleIvFirst(salt, iv, encryptedContent) ==
  VersionBytes \o iv \o salt \o encryptedContent

\* (variant: the buffer is returned before the encrypted content is written)
AssembleHeaderOnly(salt, iv, encryptedContent) ==
  VersionBytes \o salt \o iv

\* encryptFile, "Combine all parts into a single buffer"
AssembleContainer(salt, iv, encryptedContent) ==
  LET size == Len(VersionBytes) + Len(salt) + Len(iv) + Len(encryptedContent)
      r0 == SetAt(Zeros(size), VersionBytes, 0)
      r1 == SetAt(r0, salt, Len(VersionBytes))
      r2 == SetAt(r1, iv, Len(VersionBytes) + Len(salt))
  IN  SetAt(r2, encryptedContent, Len(VersionBytes) + Len(salt) + Len(iv))

\* decryptFile, extraction of salt, IV and encrypted content
SaltOffset == 4
ExtractSalt(encryptedData) ==
  Slice(encryptedData, SaltOffset, SaltOffset + SALT_LENGTH)
\* (variant: the offset is not advanced past the salt)
ExtractIvNoAdvance(encryptedData) ==
  Slice(encryptedData, SaltOffset, SaltOffset + IV_LENGTH)

ExtractIv(encryptedData) ==
  Slice(encryptedData, SaltOffset + SALT_LENGTH,
        SaltOffset + SALT_LENGTH + IV_LENGTH)
ExtractContent(encryptedData) ==
  Slice(encryptedData, SaltOffset + SALT_LENGTH + IV_LENGTH, Len(encryptedData))

\* (variant: the version is not checked)
ValidateSizeOnly(encryptedData) ==
  IF Len(encryptedData) < MIN_SIZE THEN TooSmallError ELSE Pending

\* (variant: an input of exactly the minimum size is rejected too)
ValidateInclusive(encryptedData) ==
  IF Len(encryptedData) <= MIN_SIZE THEN TooSmallError
  ELSE IF GetUint32LE(encryptedData) # Uint32(FORMAT_VERSION)
    THEN UnsupportedVersionError(GetUint32LE(encryptedData))
  ELSE Pending

\* decryptFile, the two validation steps, in the order of the code:
\* the rejection they raise, or Pending when the input passes both
Validate(encryptedData) ==
  IF Len(encryptedData) < MIN_SIZE THEN TooSmallError
  ELSE IF GetUint32LE(encryptedData) # Uint32(FORMAT_VERSION)
    THEN UnsupportedVersionError(GetUint32LE(encryptedData))
  ELSE Pending

\* ------------------------------------------------------------------------
\* One invocation run on its own, from its inputs, its random draws and the
\* primitive that fails in it ("none" when none does), to its outcome

\* deriveKey(password, salt): the key, or the rejection
DeriveKeyAlone(password, salt, fault) ==
  IF fault = "importKey" THEN [ok |-> FALSE, key |-> NoKey, error |-> KeyDerivationError]
  ELSE IF fault = "deriveKey" THEN [ok |-> FALSE, key |-> NoKey, error |-> PlatformError]
  ELSE [ok |-> TRUE, key |-> Pbkdf2(ImportKey(TextEncode(password)), salt),
        error |-> Pending]

EncryptFileAlone(file, password, salt, iv, fault) ==
  LET k == DeriveKeyAlone(password, salt, fault) IN
  IF ~k.ok THEN Rethrow(k.error)
  ELSE IF fault = "read" THEN Rethrow(ReadError)
  ELSE IF fault = "encrypt" THEN Rethrow(EncryptError)
  ELSE Fulfilled(AssembleContainer(salt, iv,
                   AesGcmEncrypt(k.key, iv, AUTH_TAG_LENGTH * 8, file)))

DecryptFileAlone(file, password, fault) ==
  LET v == Validate(file)
      k == DeriveKeyAlone(password, ExtractSalt(file), fault)
      r == AesGcmDecrypt(k.key, ExtractIv(file), AUTH_TAG_LENGTH * 8,
                         ExtractContent(file))
  IN
  IF fault = "read" THEN Rethrow(ReadError)
  ELSE IF v.state = "rejected" THEN Rethrow(v)
  ELSE IF ~k.ok THEN Rethrow(k.error)
  ELSE IF fault = "decrypt" \/ ~r.ok THEN Rethrow(DecryptFailure(r))
  ELSE Fulfilled(r.bytes)

\* ------------------------------------------------------------------------
\* State
VARIABLES
  calls,   \* calls[i]: one invocation of encryptFile or decryptFile
  saved,   \* the container most recently kept from a finished encryptFile
  ui       \* the state of the page (src/app/page.tsx, component Home)

vars == << calls, saved, ui >>

NoOrigin == [plain |-> << >>, password |-> << >>, salt |-> << >>, iv |-> << >>]
NoSource == [kind |-> "none", offset |-> 0, bit |-> 0, origin |-> NoOrigin]

Idle ==
  [op |-> "none", pc |-> "idle", file |-> << >>, password |-> << >>,
   salt |-> << >>, iv |-> << >>, keyMaterial |-> << >>, key |-> NoKey,
   outcome |-> Pending,
   trace |-> << >>, fault |-> "none", source |-> NoSource, met |-> FALSE]

NoSaved == [present |-> FALSE, bytes |-> << >>, origin |-> NoOrigin]

\* The page.  A File is its name and its bytes (source: where the bytes come
\* from, kept for the properties); a name is a base followed by n times the
\* suffix ".encrypted".
FileName(base, n) == [base |-> base, suffixes |-> n]

NoFile ==
  [present |-> FALSE, name |-> FileName("", 0), bytes |-> << >>,
   source |-> NoSource]

\* useState(null) of result.  (of: the File the result was made from; the
\* code keeps its name only, in fileName)
NoResult ==
  [present |-> FALSE, success |-> FALSE, fileName |-> FileName("", 0),
   blob |-> << >>, fileSize |-> 0, of |-> NoFile]

NoToast == [title |-> "", description |-> ""]

\* A handler suspended at its await: the handler and the file it closed over
NoClosure == [handler |-> "none", file |-> NoFile]

\* The state of Home after the first render.  toast is the toast shown by the
\* last handler that ran, timers the delayed resets scheduled by
\* handleDownload, awaiting[i] the handler that awaits invocation i.
UiInit ==
  [file |-> NoFile, password |-> << >>, confirmPassword |-> << >>,
   isProcessing |-> FALSE, activeTab |-> "encrypt", result |-> NoResult,
   toast |-> NoToast, timers |-> 0,
   awaiting |-> [i \in 1..MaxCalls |-> NoClosure]]

Init ==
  /\ calls = [i \in 1..MaxCalls |-> Idle]
  /\ saved = NoSaved
  /\ ui = UiInit

\* A container kept from an earlier session
EarlierOrigin ==
  [plain |-> << 255 >>, password |-> << 97 >>,
   salt |-> [k \in 1..SALT_LENGTH |-> 170], iv |-> [k \in 1..IV_LENGTH |-> 85]]

EarlierSaved ==
  [present |-> TRUE,
   bytes |-> EncryptFileAlone(EarlierOrigin.plain, EarlierOrigin.password,
                              EarlierOrigin.salt, EarlierOrigin.iv, "none").value,
   origin |-> EarlierOrigin]

InitConcurrent ==
  /\ calls = [i \in 1..MaxCalls |-> Idle]
  /\ saved = EarlierSaved
  /\ ui = UiInit

\* crypto.getRandomValues(new Uint8Array(n)): values it can return
RandomPool(n) == { [k \in 1..n |-> IF k = 1 THEN r ELSE 0] : r \in 0..MaxRandom }

\* Values crypto.getRandomValues returned before and that are still held
\* somewhere: it does not return them again
Drawn ==
  {saved.origin.salt, saved.origin.iv}
    \cup UNION { {calls[j].salt, calls[j].iv, calls[j].source.origin.salt,
                  calls[j].source.origin.iv} : j \in 1..MaxCalls }

\* ------------------------------------------------------------------------
\* Inputs the caller can supply
PlainBytes == {0, 255}
Plaintexts == UNION { [1..n -> PlainBytes] : n \in 0..MaxPlainLen }

\* Passwords as UTF-16 code units: "a" and two unpaired surrogates
Passwords == { << 97 >>, << 55296 >>, << 56320 >> }
FewPasswords == { << 97 >>, << 55296 >> }
FewPlaintexts == { << 0 >> }

\* One bit of the byte at a 0-based offset flipped
FlipBit(bytes, offset, bit) ==
  [bytes EXCEPT ![offset + 1] =
     IF offset < SaltOffset + SALT_LENGTH + IV_LENGTH
       THEN Xor(bytes[offset + 1], Pow2(bit))
       ELSE SymByte(bytes[offset + 1].h, bytes[offset + 1].i,
                    Xor(bytes[offset + 1].x, Pow2(bit)))]

\* A file of plain bytes: a 4-byte prefix, then a filler byte
PlainFile(len, prefix, fill) ==
  [k \in 1..len |->
     IF k <= 4 THEN prefix[k]
     ELSE IF k <= SaltOffset + SALT_LENGTH + IV_LENGTH THEN fill
     ELSE ConstByte(fill)]

Prefixes == { << 1, 0, 0, 0 >>, << 2, 0, 0, 0 >>, << 1, 1, 0, 0 >>, << 1, 0, 0, 128 >> }

Source(kind, offset, bit) ==
  [kind |-> kind, offset |-> offset, bit |-> bit, origin |-> saved.origin]

\* Files handed to decryptFile: the saved container, intact, with one bit
\* flipped (bit o mod 8 of the byte at offset o) or cut short, and files that
\* no encryptFile produced
SavedInputs(offsets, cuts) ==
  IF ~saved.present THEN {}
  ELSE { [bytes |-> saved.bytes, source |-> Source("intact", 0, 0)] }
       \cup { [bytes |-> FlipBit(saved.bytes, o, o % 8), source |-> Source("flip", o, o % 8)] :
                o \in offsets \cap (0..(Len(saved.bytes) - 1)) }
       \cup { [bytes |-> SubSeq(saved.bytes, 1, n), source |-> Source("cut", n, 0)] :
                n \in cuts }

ForeignInputs(lens, prefixes) ==
  { [bytes |-> PlainFile(n, p, 7),
     source |-> [kind |-> "foreign", offset |-> 0, bit |-> 0, origin |-> NoOrigin]] :
      n \in lens, p \in prefixes }

AllOffsets == 0..(MIN_SIZE + MaxPlainLen)
Inputs ==
  SavedInputs(AllOffsets, {MIN_SIZE - 1, Len(saved.bytes) - 1})
    \cup ForeignInputs({3, MIN_SIZE - 1, MIN_SIZE}, Prefixes)
FewInputs ==
  SavedInputs({SaltOffset}, {}) \cup ForeignInputs({MIN_SIZE}, {<< 2, 0, 0, 0 >>})

\* ------------------------------------------------------------------------
\* Actions: the code of one invocation between two await points

\* Whether another invocation is in flight when invocation i settles
\* (history kept for the properties; the code has no such flag)
Meets(i) ==
  \E j \in 1..MaxCalls : j # i /\ calls[j].pc \notin {"idle", "done"}

Settle(i, c, outcome, fault) ==
  calls' = [calls EXCEPT ![i] =
              [c EXCEPT !.pc = "done", !.outcome = outcome, !.fault = fault,
                        !.met = Meets(i)]]

\* (variant: the new array is used as it is)
ZeroValues(n) == { Zeros(n) }

\* crypto.getRandomValues(new Uint8Array(n)) inside encryptFile
GetRandomValues(n) == RandomPool(n) \ Drawn

\* encryptFile up to the first await (inside deriveKey): salt, iv, password
\* encoding and the call of importKey
EncryptStart(i, files, passwords) ==
  /\ calls[i].pc = "idle"
  /\ \E file \in files, password \in passwords :
     \E salt \in GetRandomValues(SALT_LENGTH) :
     \E iv \in GetRandomValues(IV_LENGTH) :
       /\ calls' = [calls EXCEPT ![i] =
            [Idle EXCEPT !.op = "encrypt", !.pc = "importKey", !.file = file,
                         !.password = password, !.salt = salt, !.iv = iv,
                         !.trace = << "getRandomValues", "getRandomValues",
                                      "importKey" >>]]
  /\ UNCHANGED saved

\* decryptFile up to the first await: the file read is started
DecryptStart(i, inputs, passwords) ==
  /\ calls[i].pc = "idle"
  /\ \E input \in inputs, password \in passwords :
       calls' = [calls EXCEPT ![i] =
         [Idle EXCEPT !.op = "decrypt", !.pc = "read", !.file = input.bytes,
                      !.password = password, !.source = input.source,
                      !.trace = << "readFile" >>]]
  /\ UNCHANGED saved

\* importKey resolved: deriveKey goes on and returns the PBKDF2 promise
ImportKeyResolve(i) ==
  LET c == calls[i] IN
  /\ c.pc = "importKey"
  /\ calls' = [calls EXCEPT ![i] =
       [c EXCEPT !.pc = "deriveKey",
                 !.keyMaterial = ImportKey(TextEncode(c.password)),
                 !.trace = Append(c.trace, "deriveKey")]]
  /\ UNCHANGED << saved, ui >>

\* importKey failed: caught inside deriveKey, which throws its own Error
ImportKeyReject(i) ==
  LET c == calls[i] IN
  /\ c.pc = "importKey"
  /\ Settle(i, c, Rethrow(KeyDerivationError), "importKey")
  /\ UNCHANGED << saved, ui >>

\* (variant: the salt is kept in one place for all invocations)
SharedSalt(i) == IF calls[1].salt # << >> THEN calls[1].salt ELSE calls[i].salt

\* const salt: the salt of invocation i, local to it
SaltOf(i) == calls[i].salt

\* the PBKDF2 promise resolved: the caller of deriveKey goes on
DeriveKeyResolve(i) ==
  LET c == calls[i] IN
  /\ c.pc = "deriveKey"
  /\ calls' = [calls EXCEPT ![i] =
       [c EXCEPT !.key = Pbkdf2(c.keyMaterial, SaltOf(i)),
                 !.pc = IF c.op = "encrypt" THEN "read" ELSE "aead",
                 !.trace = Append(c.trace,
                             IF c.op = "encrypt" THEN "readFile" ELSE "decrypt")]]
  /\ UNCHANGED << saved, ui >>

\* the PBKDF2 promise rejected: it was returned without await, so the catch
\* of deriveKey does not see it and the caller gets the platform's rejection
DeriveKeyReject(i) ==
  LET c == calls[i] IN
  /\ c.pc = "deriveKey"
  /\ Settle(i, c, Rethrow(PlatformError), "deriveKey")
  /\ UNCHANGED << saved, ui >>

\* FileReader.onload.  encryptFile goes on to crypto.subtle.encrypt;
\* decryptFile validates, extracts and goes on into deriveKey.
ReadResolve(i) ==
  LET c == calls[i]
      v == Validate(c.file)
  IN
  /\ c.pc = "read"
  /\ calls' = [calls EXCEPT ![i] =
       IF c.op = "encrypt"
         THEN [c EXCEPT !.pc = "aead",
                        !.trace = Append(c.trace, "encrypt")]
       ELSE IF v.state = "rejected"
         THEN [c EXCEPT !.pc = "done", !.outcome = Rethrow(v), !.met = Meets(i)]
       ELSE [c EXCEPT !.pc = "importKey",
                      !.salt = ExtractSalt(c.file), !.iv = ExtractIv(c.file),
                      !.trace = c.trace \o << "validated", "importKey" >>]]
  /\ UNCHANGED << saved, ui >>

\* FileReader.onerror
ReadReject(i) ==
  LET c == calls[i] IN
  /\ c.pc = "read"
  /\ Settle(i, c, Rethrow(ReadError), "read")
  /\ UNCHANGED << saved, ui >>

\* crypto.subtle.encrypt resolved: the container is assembled and returned
EncryptResolve(i) ==
  LET c == calls[i]
      encryptedContent == AesGcmEncrypt(c.key, c.iv, AUTH_TAG_LENGTH * 8, c.file)
  IN
  /\ c.op = "encrypt" /\ c.pc = "aead"
  /\ calls' = [calls EXCEPT ![i] =
       [c EXCEPT !.pc = "done", !.met = Meets(i),
                 !.outcome = Fulfilled(AssembleContainer(c.salt, c.iv, encryptedContent))]]
  /\ UNCHANGED << saved, ui >>

\* crypto.subtle.encrypt rejected
EncryptReject(i) ==
  LET c == calls[i] IN
  /\ c.op = "encrypt" /\ c.pc = "aead"
  /\ Settle(i, c, Rethrow(EncryptError), "encrypt")
  /\ UNCHANGED << saved, ui >>

\* crypto.subtle.decrypt settled: the plaintext, or the rejection on a tag
\* that does not verify
DecryptSettle(i) ==
  LET c == calls[i]
      r == AesGcmDecrypt(c.key, c.iv, AUTH_TAG_LENGTH * 8, ExtractContent(c.file))
  IN
  /\ c.op = "decrypt" /\ c.pc = "aead"
  /\ Settle(i, c, IF r.ok THEN Fulfilled(r.bytes) ELSE Rethrow(DecryptFailure(r)), "none")
  /\ UNCHANGED << saved, ui >>

\* crypto.subtle.decrypt rejected for another reason than the tag
DecryptReject(i) ==
  LET c == calls[i] IN
  /\ c.op = "decrypt" /\ c.pc = "aead"
  /\ Settle(i, c, Rethrow(DecryptError), "decrypt")
  /\ UNCHANGED << saved, ui >>

\* The caller keeps the container an encryptFile returned (in place of the
\* one kept before) and is done with the invocation
Save(i) ==
  LET c == calls[i] IN
  /\ c.op = "encrypt" /\ c.pc = "done" /\ c.outcome.state = "fulfilled"
  /\ saved' = [present |-> TRUE, bytes |-> c.outcome.value,
               origin |-> [plain |-> c.file, password |-> c.password,
                           salt |-> c.salt, iv |-> c.iv]]
  /\ calls' = [calls EXCEPT ![i] = Idle]
  /\ UNCHANGED ui

\* The caller is done with a settled invocation
Release(i) ==
  /\ calls[i].pc = "done"
  /\ calls' = [calls EXCEPT ![i] = Idle]
  /\ UNCHANGED << saved, ui >>

\* A primitive an invocation awaits completes
Completion(i) ==
  \/ ImportKeyResolve(i) \/ DeriveKeyResolve(i) \/ ReadResolve(i)
  \/ EncryptResolve(i) \/ DecryptSettle(i)

\* A primitive an invocation awaits fails in the platform
Failure(i) ==
  \/ ImportKeyReject(i) \/ DeriveKeyReject(i) \/ ReadReject(i)
  \/ EncryptReject(i) \/ DecryptReject(i)

Step(i) == Completion(i) \/ Failure(i) \/ Save(i) \/ Release(i)

\* encryptFile and decryptFile called by another caller than the page
CallEncryptFile(i, files, passwords) ==
  EncryptStart(i, files, passwords) /\ UNCHANGED ui

CallDecryptFile(i, inputs, passwords) ==
  DecryptStart(i, inputs, passwords) /\ UNCHANGED ui

\* One invocation at a time, every input
Next ==
  \/ CallEncryptFile(1, Plaintexts, Passwords)
  \/ CallDecryptFile(1, Inputs, Passwords)
  \/ Step(1)

Spec == Init /\ [][Next]_vars

\* Up to MaxCalls invocations in flight, interleaved at their await points
\* (slots are taken in order: which slot an invocation gets is immaterial)
NextSlot(i) == \A j \in 1..(i - 1) : calls[j].pc # "idle"

ConcurrentEncrypt(i) ==
  NextSlot(i) /\ CallEncryptFile(i, FewPlaintexts, {<< 56320 >>})

ConcurrentDecrypt(i) ==
  NextSlot(i) /\ CallDecryptFile(i, FewInputs, FewPasswords)

NextConcurrent ==
  \E i \in 1..MaxCalls :
    ConcurrentEncrypt(i) \/ ConcurrentDecrypt(i) \/ Completion(i)

SpecConcurrent == InitConcurrent /\ [][NextConcurrent]_vars

\* Two decryptFile invocations on the container kept earlier: the first on
\* the container as it is, the second on the container with one bit flipped
NextPair ==
  \/ CallDecryptFile(1, SavedInputs({}, {}), Passwords)
  \/ CallDecryptFile(2, SavedInputs(AllOffsets, {}) \ SavedInputs({}, {}), Passwords)
  \/ \E i \in {1, 2} :
       \/ ReadResolve(i) \/ ImportKeyResolve(i) \/ DeriveKeyResolve(i)
       \/ DecryptSettle(i)

SpecPair == InitConcurrent /\ [][NextPair]_vars

\* ------------------------------------------------------------------------
\* The page (src/app/page.tsx): one action is one run of an event handler, up
\* to its await or its end.  React renders between two events, so a handler
\* reads the state the last one left.  The progress bar is left out.

\* The container of an empty file, made in an earlier session
EmptyOrigin ==
  [plain |-> << >>, password |-> << 97 >>,
   salt |-> [k \in 1..SALT_LENGTH |-> 204], iv |-> [k \in 1..IV_LENGTH |-> 51]]

\* Files the user can pick: a one-byte file, the container of an empty file,
\* and the container kept earlier
UiFiles ==
  { [present |-> TRUE, name |-> FileName("a", 0), bytes |-> << 0 >>,
     source |-> [kind |-> "foreign", offset |-> 0, bit |-> 0, origin |-> NoOrigin]],
    [present |-> TRUE, name |-> FileName("c", 1),
     bytes |-> EncryptFileAlone(EmptyOrigin.plain, EmptyOrigin.password,
                                EmptyOrigin.salt, EmptyOrigin.iv, "none").value,
     source |-> [kind |-> "intact", offset |-> 0, bit |-> 0, origin |-> EmptyOrigin]] }
    \cup (IF saved.present
            THEN { [present |-> TRUE, name |-> FileName("b", 1), bytes |-> saved.bytes,
                    source |-> Source("intact", 0, 0)] }
            ELSE {})

\* What the user can type: nothing, the password of the container, another one
UiPasswords == { << >>, << 97 >>, << 55296 >> }

\* `${file.name}.encrypted`
AddSuffix(name) == FileName(name.base, name.suffixes + 1)
\* originalFileName.endsWith(".encrypted") ? originalFileName.slice(0, -10) : ...
StripSuffix(name) ==
  IF name.suffixes > 0 THEN FileName(name.base, name.suffixes - 1) ELSE name

\* if (encryptedData), if (decryptedData): an ArrayBuffer is an object
Truthy(buffer) == TRUE

\* The continuation of a suspended handler is a microtask: once the promise
\* it awaits has settled, it runs before the next event or timer
ResumeDue ==
  \E i \in 1..MaxCalls : ui.awaiting[i].handler # "none" /\ calls[i].pc = "done"

\* handleFileChange, called by FileUploader on a drop, a pick or the remove
\* button (which is there when a file is shown)
HandleFileChange ==
  /\ ~ResumeDue
  /\ \E selectedFile \in UiFiles \cup (IF ui.file.present THEN {NoFile} ELSE {}) :
       ui' = [ui EXCEPT !.file = selectedFile, !.result = NoResult,
                        !.toast = NoToast]
  /\ UNCHANGED << calls, saved >>

\* handlePasswordChange; the input is disabled while isProcessing
HandlePasswordChange ==
  /\ ~ResumeDue /\ ~ui.isProcessing
  /\ \E value \in UiPasswords \ {ui.password} :
       ui' = [ui EXCEPT !.password = value, !.toast = NoToast]
  /\ UNCHANGED << calls, saved >>

\* handleConfirmPasswordChange; the input is rendered on the encrypt tab
HandleConfirmPasswordChange ==
  /\ ~ResumeDue /\ ~ui.isProcessing /\ ui.activeTab = "encrypt"
  /\ \E value \in UiPasswords \ {ui.confirmPassword} :
       ui' = [ui EXCEPT !.confirmPassword = value, !.toast = NoToast]
  /\ UNCHANGED << calls, saved >>

\* onClick of the two tab buttons
SetActiveTab ==
  /\ ~ResumeDue
  /\ \E tab \in {"encrypt", "decrypt"} :
       ui' = [ui EXCEPT !.activeTab = tab, !.password = << >>,
                        !.confirmPassword = << >>, !.result = NoResult,
                        !.toast = NoToast]
  /\ UNCHANGED << calls, saved >>

\* (variant: only the lengths of the two passwords are compared)
MismatchByLength(u) ==
  u.activeTab = "encrypt" /\ Len(u.password) # Len(u.confirmPassword)

\* handleEncrypt: activeTab === "encrypt" && password !== confirmPassword
Mismatch(u) == u.activeTab = "encrypt" /\ u.password # u.confirmPassword

\* (variant: the button stays enabled while an operation is in flight)
ButtonDisabledNotBusy(u) ==
  \/ ~u.file.present \/ u.password = << >>
  \/ (u.activeTab = "encrypt" /\ u.confirmPassword = << >>)

\* disabled={!file || !password || isProcessing ||
\*           (activeTab === "encrypt" && !confirmPassword)}
ButtonDisabled(u) ==
  \/ ~u.file.present \/ u.password = << >> \/ u.isProcessing
  \/ (u.activeTab = "encrypt" /\ u.confirmPassword = << >>)

MismatchToast ==
  [title |-> "Passwords don't match",
   description |-> "Please make sure your passwords match."]

\* setIsProcessing(true); setResult(null); then the handler waits for
\* invocation i with the file it closed over
Suspend(u, i, handler) ==
  [u EXCEPT !.isProcessing = TRUE, !.result = NoResult, !.toast = NoToast,
            !.awaiting[i] = [handler |-> handler, file |-> u.file]]

\* A click on the button on the encrypt tab: handleEncrypt up to its await,
\* encryptFile up to its first await included
HandleEncrypt(i) ==
  /\ ~ResumeDue /\ ~ButtonDisabled(ui) /\ ui.activeTab = "encrypt"
  /\ NextSlot(i) /\ calls[i].pc = "idle"
  /\ IF ~ui.file.present \/ ui.password = << >>
       THEN ui' = [ui EXCEPT !.toast = NoToast] /\ UNCHANGED << calls, saved >>
     ELSE IF Mismatch(ui)
       THEN ui' = [ui EXCEPT !.toast = MismatchToast] /\ UNCHANGED << calls, saved >>
     ELSE /\ ui' = Suspend(ui, i, "handleEncrypt")
          /\ EncryptStart(i, {ui.file.bytes}, {ui.password})

\* A click on the button on the decrypt tab: handleDecrypt up to its await
HandleDecrypt(i) ==
  /\ ~ResumeDue /\ ~ButtonDisabled(ui) /\ ui.activeTab = "decrypt"
  /\ NextSlot(i) /\ calls[i].pc = "idle"
  /\ IF ~ui.file.present \/ ui.password = << >>
       THEN ui' = [ui EXCEPT !.toast = NoToast] /\ UNCHANGED << calls, saved >>
     ELSE /\ ui' = Suspend(ui, i, "handleDecrypt")
          /\ DecryptStart(i, {[bytes |-> ui.file.bytes, source |-> ui.file.source]},
                          {ui.password})

\* formatFileSize(blob.size), for sizes below 1024: the number of bytes
FormatFileSize(bytes) == bytes

\* (variant: the password fields are left as they are)
OnFulfilledKeepsPassword(u, closure, data) ==
  [u EXCEPT
     !.result = [present |-> TRUE, success |-> TRUE,
                 fileName |-> IF closure.handler = "handleEncrypt"
                                THEN AddSuffix(closure.file.name)
                                ELSE StripSuffix(closure.file.name),
                 blob |-> data, fileSize |-> FormatFileSize(Len(data)),
                 of |-> closure.file],
     !.toast = [title |-> IF closure.handler = "handleEncrypt"
                            THEN "Encryption successful!"
                            ELSE "Decryption successful!",
                description |-> IF closure.handler = "handleEncrypt"
                                  THEN "Your file has been encrypted and is ready to download."
                                  ELSE "Your file has been decrypted and is ready to download."]]

\* handleEncrypt / handleDecrypt after the await, the promise fulfilled:
\* the result, the password fields, the toast
OnFulfilled(u, closure, data) ==
  IF closure.handler = "handleEncrypt"
    THEN [u EXCEPT
            !.result = [present |-> TRUE, success |-> TRUE,
                        fileName |-> AddSuffix(closure.file.name),
                        blob |-> data, fileSize |-> FormatFileSize(Len(data)),
                        of |-> closure.file],
            !.password = IF Truthy(data) THEN << >> ELSE @,
            !.confirmPassword = IF Truthy(data) THEN << >> ELSE @,
            !.toast = [title |-> "Encryption successful!",
                       description |-> "Your file has been encrypted and is ready to download."]]
    ELSE [u EXCEPT
            !.result = [present |-> TRUE, success |-> TRUE,
                        fileName |-> StripSuffix(closure.file.name),
                        blob |-> data, fileSize |-> FormatFileSize(Len(data)),
                        of |-> closure.file],
            !.password = IF Truthy(data) THEN << >> ELSE @,
            !.toast = [title |-> "Decryption successful!",
                       description |-> "Your file has been decrypted and is ready to download."]]

\* catch (error): the toast only
OnRejected(u, closure, error) ==
  [u EXCEPT
     !.toast = [title |-> IF closure.handler = "handleEncrypt"
                            THEN "Encryption failed" ELSE "Decryption failed",
                description |-> IF IsError(error) THEN error.message
                                ELSE "Unknown error occurred"]]

\* finally { setIsProcessing(false) }; the handler has ended
Finally(u, i) == [u EXCEPT !.isProcessing = FALSE, !.awaiting[i] = NoClosure]

\* The handler that awaits invocation i goes on after its await
Resume(i) ==
  LET closure == ui.awaiting[i]
      outcome == calls[i].outcome
  IN
  /\ closure.handler # "none" /\ calls[i].pc = "done"
  /\ ui' = Finally(IF outcome.state = "fulfilled"
                     THEN OnFulfilled(ui, closure, outcome.value)
                     ELSE OnRejected(ui, closure, outcome), i)
  /\ calls' = [calls EXCEPT ![i] = Idle]
  /\ UNCHANGED saved

\* handleDownload (the button is there when a result is shown): the link is
\* clicked and the reset of the form is scheduled
HandleDownload ==
  /\ ~ResumeDue /\ ui.result.present /\ ui.timers < MaxTimers
  /\ ui' = [ui EXCEPT !.timers = @ + 1, !.toast = NoToast]
  /\ UNCHANGED << calls, saved >>

\* The callback of setTimeout(..., 1000) in handleDownload
DownloadReset ==
  /\ ~ResumeDue /\ ui.timers > 0
  /\ ui' = [ui EXCEPT !.file = NoFile, !.password = << >>,
                      !.confirmPassword = << >>, !.result = NoResult,
                      !.timers = @ - 1, !.toast = NoToast]
  /\ UNCHANGED << calls, saved >>

NextUi ==
  \/ HandleFileChange \/ HandlePasswordChange \/ HandleConfirmPasswordChange
  \/ SetActiveTab \/ HandleDownload \/ DownloadReset
  \/ \E i \in 1..MaxCalls :
       \/ HandleEncrypt(i) \/ HandleDecrypt(i) \/ Resume(i)
       \/ Completion(i) \/ Failure(i)

SpecUi == InitConcurrent /\ [][NextUi]_vars

\* ------------------------------------------------------------------------
\* Properties
Slots == 1..MaxCalls

\* A decryptFile that has settled and in which no platform primitive failed
DecryptSettled(c) == c.op = "decrypt" /\ c.pc = "done" /\ c.fault = "none"

\* C1 Round trip: decryptFile on the unmodified container that encryptFile
\* returned for plaintext P and password W, with the same password W, is
\* fulfilled with exactly P (no platform primitive failing).
RoundTrip ==
  \A i \in Slots :
    LET c == calls[i] IN
    (DecryptSettled(c) /\ c.source.kind = "intact"
       /\ c.password = c.source.origin.password)
      => (c.outcome.state = "fulfilled" /\ c.outcome.value = c.source.origin.plain)

RoundTripWitness ==
  \E i \in Slots :
    LET c == calls[i] IN
    /\ DecryptSettled(c) /\ c.source.kind = "intact"
    /\ c.password = c.source.origin.password
    /\ Len(c.source.origin.plain) > 0
    /\ c.outcome = Fulfilled(c.source.origin.plain)

TamperDetected ==
  \A i \in Slots :
    LET c == calls[i] IN
    (DecryptSettled(c) /\ c.source.kind = "flip"
       /\ c.source.offset >= VERSION_LENGTH
       /\ c.password = c.source.origin.password)
      => c.outcome = DecryptError

\* a flipped ciphertext bit, which without the tag would flip a plaintext bit
TamperWitness ==
  \E i \in Slots :
    LET c == calls[i] IN
    /\ DecryptSettled(c) /\ c.source.kind = "flip"
    /\ c.source.offset = VERSION_LENGTH + SALT_LENGTH + IV_LENGTH
    /\ Len(c.source.origin.plain) > 0
    /\ c.password = c.source.origin.password
    /\ c.outcome = DecryptError

\* C4 Version gate: decryptFile on an input of at least 48 bytes whose first
\* four bytes are not 01 00 00 00 is rejected as an unsupported version,
\* whatever the other bytes and the password.
VersionGate ==
  \A i \in Slots :
    LET c == calls[i] IN
    (DecryptSettled(c) /\ Len(c.file) >= MIN_SIZE
       /\ SubSeq(c.file, 1, VERSION_LENGTH) # << 1, 0, 0, 0 >>)
      => /\ c.outcome.state = "rejected"
         /\ c.outcome.name = "Error"
         /\ c.outcome.message = "Unsupported file format version: "
         /\ c.outcome.arg = [lo |-> c.file[1] + 256 * c.file[2],
                             hi |-> c.file[3] + 256 * c.file[4]]

\* a container that decrypts with this password but for one version bit
VersionGateWitness ==
  \E i \in Slots :
    LET c == calls[i] IN
    /\ DecryptSettled(c) /\ c.source.kind = "flip"
    /\ c.source.offset = VERSION_LENGTH - 1
    /\ c.password = c.source.origin.password
    /\ c.outcome.message = "Unsupported file format version: "

\* C5 Minimum size: decryptFile on an input shorter than 48 bytes is rejected
\* as too small whatever its bytes and the password; an input of exactly 48
\* bytes is not rejected as too small.
MinimumSize ==
  \A i \in Slots :
    LET c == calls[i]
        minimum == VERSION_LENGTH + SALT_LENGTH + IV_LENGTH + AUTH_TAG_LENGTH
    IN
    DecryptSettled(c) =>
      /\ Len(c.file) < minimum => c.outcome = TooSmallError
      /\ Len(c.file) = minimum => c.outcome # TooSmallError

\* 47 bytes that start with another version than 1
MinimumSizeWitness ==
  \E i \in Slots :
    LET c == calls[i] IN
    /\ DecryptSettled(c)
    /\ Len(c.file) = VERSION_LENGTH + SALT_LENGTH + IV_LENGTH + AUTH_TAG_LENGTH - 1
    /\ SubSeq(c.file, 1, VERSION_LENGTH) = << 2, 0, 0, 0 >>
    /\ c.outcome = TooSmallError

\* C6 Container layout: the bytes encryptFile returns for a plaintext of
\* length n are 32 + n + 16 long, start with 01 00 00 00, carry at offsets
\* 4..19 the salt the key was derived from and at offsets 20..31 the nonce
\* AES-GCM was run with, then ciphertext and tag; decryptFile extracts from
\* them the salt and the nonce encryptFile generated.
ContainerLayout ==
  \A i \in Slots :
    LET c == calls[i]
        v == c.outcome.value
    IN
    /\ (c.op = "encrypt" /\ c.outcome.state = "fulfilled") =>
         /\ Len(v) = 32 + Len(c.file) + 16
         /\ SubSeq(v, 1, 4) = << 1, 0, 0, 0 >>
         /\ SubSeq(v, 5, 20) = c.salt
         /\ c.key.salt = c.salt
         /\ SubSeq(v, 21, 32) = c.iv
         /\ SubSeq(v, 33, Len(v)) =
              [k \in 1..(Len(c.file) + 16) |->
                 IF k <= Len(c.file)
                   THEN SymByte(KeystreamTerm(c.key, c.iv), k, c.file[k])
                   ELSE SymByte(TagTerm(c.key, c.iv, SubSeq(v, 33, 32 + Len(c.file))),
                                k - Len(c.file), 0)]
    /\ (c.op = "decrypt" /\ c.source.kind = "intact" /\ Len(c.trace) > 1) =>
         /\ c.salt = c.source.origin.salt
         /\ c.iv = c.source.origin.iv

ContainerLayoutWitness ==
  \E i \in Slots :
    LET c == calls[i] IN
    /\ c.op = "decrypt" /\ c.source.kind = "intact" /\ c.pc = "aead"
    /\ Len(c.file) = 32 + 1 + 16
    /\ c.salt = c.source.origin.salt /\ c.iv = c.source.origin.iv
    /\ c.salt # Zeros(SALT_LENGTH)

\* C7 Validation order: in decryptFile the steps are taken in the order read,
\* validation, key derivation (importKey, deriveKey), AEAD decryption; a call
\* rejected as too small or as unsupported version has done no cryptographic
\* work, and key derivation is reached only with an input of at least 48
\* bytes that starts with 01 00 00 00.
DecryptOrder == << "readFile", "validated", "importKey", "deriveKey", "decrypt" >>

Occurs(x, seq) == \E k \in 1..Len(seq) : seq[k] = x

ValidationFirst ==
  \A i \in Slots :
    LET c == calls[i] IN
    c.op = "decrypt" =>
      /\ c.trace = SubSeq(DecryptOrder, 1, Len(c.trace))
      /\ (c.outcome = TooSmallError
            \/ c.outcome.message = "Unsupported file format version: ")
           => (c.trace = << "readFile" >> /\ c.key = NoKey)
      /\ Occurs("importKey", c.trace) =>
           (Len(c.file) >= 48 /\ SubSeq(c.file, 1, 4) = << 1, 0, 0, 0 >>)
      /\ Occurs("decrypt", c.trace) => c.key # NoKey
      /\ (c.pc = "done" /\ c.fault = "none"
            /\ (c.outcome.state = "fulfilled" \/ c.outcome = DecryptError))
           => c.trace = DecryptOrder

ValidationFirstWitness ==
  \E i \in Slots :
    LET c == calls[i] IN
    /\ c.op = "decrypt" /\ c.pc = "done" /\ c.fault = "none"
    /\ c.outcome = DecryptError
    /\ c.trace = DecryptOrder

\* C8 Fresh randomness, deterministic key: an encryptFile on the plaintext
\* and password of an earlier one returns a different container, with another
\* salt and another nonce; a key derived from the same password and the same
\* salt is the same key in every invocation.
FreshRandomness ==
  /\ \A i \in Slots :
       LET c == calls[i] IN
       (c.op = "encrypt" /\ c.outcome.state = "fulfilled" /\ saved.present
          /\ c.file = saved.origin.plain /\ c.password = saved.origin.password)
         => /\ c.outcome.value # saved.bytes
            /\ c.salt # saved.origin.salt
            /\ c.iv # saved.origin.iv
  /\ \A i \in Slots : \A j \in Slots \ {i} :
       (calls[i].op = "encrypt" /\ calls[i].outcome.state = "fulfilled"
          /\ calls[j].op = "encrypt" /\ calls[j].outcome.state = "fulfilled"
          /\ calls[i].file = calls[j].file /\ calls[i].password = calls[j].password)
         => calls[i].outcome.value # calls[j].outcome.value
  /\ \A i \in Slots :
       LET c == calls[i] IN
       (c.op = "decrypt" /\ c.key # NoKey /\ c.source.kind = "intact"
          /\ c.password = c.source.origin.password)
         => c.key = c.file[Len(c.file)].h.key

FreshRandomnessWitness ==
  \E i \in Slots :
    LET c == calls[i] IN
    /\ c.op = "encrypt" /\ c.outcome.state = "fulfilled" /\ saved.present
    /\ c.file = saved.origin.plain /\ c.password = saved.origin.password
    /\ c.outcome.value # saved.bytes

\* C9 No oracle: the rejection of decryptFile on a container opened with a
\* wrong password and its rejection on the same container with one bit of
\* salt, nonce, ciphertext or tag flipped, opened with the right password, are
\* the same error with the same message.
NoOracle ==
  \A i \in Slots : \A j \in Slots :
    LET a == calls[i]
        b == calls[j]
    IN
    (/\ DecryptSettled(a) /\ a.source.kind = "intact"
     /\ TextEncode(a.password) # TextEncode(a.source.origin.password)
     /\ DecryptSettled(b) /\ b.source.kind = "flip"
     /\ b.source.offset >= VERSION_LENGTH
     /\ b.password = b.source.origin.password
     /\ a.source.origin = b.source.origin)
      => (a.outcome.state = "rejected" /\ a.outcome = b.outcome)

NoOracleWitness ==
  \E i \in Slots : \E j \in Slots :
    LET a == calls[i]
        b == calls[j]
    IN
    /\ DecryptSettled(a) /\ a.source.kind = "intact"
    /\ a.password # a.source.origin.password
    /\ DecryptSettled(b) /\ b.source.kind = "flip"
    /\ b.source.offset = SaltOffset
    /\ b.password = b.source.origin.password
    /\ a.source.origin = b.source.origin
    /\ a.outcome.state = "rejected" /\ a.outcome = b.outcome

\* C10 Independent invocations: whatever the interleaving of the invocations
\* at their await points, a settled invocation has the outcome it has when it
\* runs alone on its file and password (and, for encryptFile, its salt and
\* nonce).
Independent ==
  \A i \in Slots :
    LET c == calls[i] IN
    c.pc = "done" =>
      c.outcome = IF c.op = "encrypt"
                    THEN EncryptFileAlone(c.file, c.password, c.salt, c.iv, c.fault)
                    ELSE DecryptFileAlone(c.file, c.password, c.fault)

\* an encryptFile that settled while a decryptFile was in flight, which
\* then settled too
IndependentWitness ==
  \E i \in Slots : \E j \in Slots :
    /\ calls[i].op = "encrypt" /\ calls[i].pc = "done" /\ calls[i].met
    /\ calls[i].outcome.state = "fulfilled"
    /\ calls[j].op = "decrypt" /\ calls[j].pc = "done"
    /\ calls[j].outcome.state = "fulfilled"
    /\ \A k \in Slots \ {i, j} : calls[k].pc = "idle"

\* C11 Single shot: an invocation takes each of its steps once, in the order
\* of the code (no step is retried); its outcome is pending until it settles
\* and a settled outcome is never replaced (the caller can only let go of the
\* invocation); a fulfilled encryptFile carries the whole container (header,
\* one ciphertext byte per plaintext byte, tag) and a fulfilled decryptFile
\* the whole plaintext of a content whose tag verifies under the derived key;
\* a rejected one carries no bytes.  An invocation in flight awaits one
\* platform primitive, the last step it took, and every step of it settles it
\* or takes it one step further in the order.
EncryptOrder ==
  << "getRandomValues", "getRandomValues", "importKey", "deriveKey", "readFile",
     "encrypt" >>

IsPrefix(seq, order) == Len(seq) <= Len(order) /\ seq = SubSeq(order, 1, Len(seq))

WholeResult(c) ==
  LET v == c.outcome.value
      n == Len(c.file) - (VERSION_LENGTH + SALT_LENGTH + IV_LENGTH + AUTH_TAG_LENGTH)
      ct == SubSeq(c.file, VERSION_LENGTH + SALT_LENGTH + IV_LENGTH + 1,
                   Len(c.file) - AUTH_TAG_LENGTH)
  IN
  IF c.op = "encrypt"
    THEN /\ c.trace = EncryptOrder
         /\ Len(v) = VERSION_LENGTH + SALT_LENGTH + IV_LENGTH + Len(c.file)
                       + AUTH_TAG_LENGTH
         /\ \A k \in 1..Len(c.file) :
              v[VERSION_LENGTH + SALT_LENGTH + IV_LENGTH + k].x = c.file[k]
         /\ \A k \in 1..AUTH_TAG_LENGTH :
              v[Len(v) - AUTH_TAG_LENGTH + k].h.f = "ghash"
    ELSE /\ c.trace = DecryptOrder
         /\ n >= 0 /\ Len(v) = n
         /\ \A k \in 1..AUTH_TAG_LENGTH :
              c.file[Len(c.file) - AUTH_TAG_LENGTH + k] =
                SymByte(TagTerm(c.key, c.iv, ct), k, 0)
         /\ \A k \in 1..n : v[k] = ct[k].x

Awaited == {"importKey", "deriveKey", "readFile", "encrypt", "decrypt"}

SingleShotStep ==
  \A i \in Slots :
    LET c == calls[i]
        d == calls'[i]
    IN
    /\ c.pc = "done" => (d = c \/ d = Idle)
    /\ d.pc # "done" => d.outcome = Pending
    /\ d.pc = "done" => d.outcome.state \in {"fulfilled", "rejected"}
    /\ d.outcome.state = "rejected" => d.outcome.value = << >>
    /\ d.outcome.state = "fulfilled" => WholeResult(d)
    /\ d.op = "encrypt" => IsPrefix(d.trace, EncryptOrder)
    /\ d.op = "decrypt" => IsPrefix(d.trace, DecryptOrder)
    /\ d.pc \notin {"idle", "done"} =>
         (Len(d.trace) > 0 /\ d.trace[Len(d.trace)] \in Awaited)
    /\ (c.pc \notin {"idle", "done"} /\ d # c) =>
         (d.pc = "done" \/ Len(d.trace) > Len(c.trace))

SingleShot == [][SingleShotStep]_vars

\* an encryptFile of a one-byte file that settled with its whole container
SingleShotWitness ==
  \E i \in Slots :
    LET c == calls[i] IN
    /\ c.op = "encrypt" /\ c.pc = "done" /\ Len(c.file) = 1
    /\ c.outcome.state = "fulfilled"
    /\ Len(c.outcome.value) = 49
    /\ c.trace = EncryptOrder

\* C12 Key derivation failure is its own outcome: an invocation in which the
\* key material import or the PBKDF2 derivation fails is rejected with the
\* key derivation error of deriveKey ("Failed to generate encryption key"),
\* and no AEAD operation is started in it.
KeyDerivationOwnOutcome ==
  \A i \in Slots :
    LET c == calls[i] IN
    (c.pc = "done" /\ c.fault \in {"importKey", "deriveKey"})
      => /\ c.outcome.state = "rejected"
         /\ c.outcome.message = "Failed to generate encryption key"
         /\ ~Occurs("encrypt", c.trace)
         /\ ~Occurs("decrypt", c.trace)

\* C13 Confirm password gate: in every step of the page in which an encryptFile
\* invocation starts, a file is selected, the password is not empty and equals
\* the confirmation, and the invocation gets that file and that password; a
\* run of handleEncrypt with a password that differs from the confirmation
\* shows the mismatch toast, starts no invocation and leaves file, password,
\* confirmation, result and isProcessing as they are.
ConfirmGateStep ==
  /\ \A i \in Slots :
       (calls[i].pc = "idle" /\ calls'[i].op = "encrypt")
         => /\ ui.file.present
            /\ ui.password # << >>
            /\ ui.password = ui.confirmPassword
            /\ calls'[i].file = ui.file.bytes
            /\ calls'[i].password = ui.password
  /\ ((\E i \in Slots : HandleEncrypt(i)) /\ ui.password # ui.confirmPassword)
       => /\ ui'.toast.title = "Passwords don't match"
          /\ calls' = calls
          /\ ui'.file = ui.file /\ ui'.password = ui.password
          /\ ui'.confirmPassword = ui.confirmPassword
          /\ ui'.result = ui.result /\ ui'.isProcessing = ui.isProcessing

ConfirmGate == [][ConfirmGateStep]_vars

\* the mismatch toast, shown for two passwords that differ while a result of
\* an earlier operation is displayed
ConfirmGateWitness ==
  /\ ui.toast.title = "Passwords don't match"
  /\ ui.file.present /\ ui.password # << >> /\ ui.confirmPassword # << >>
  /\ ui.password # ui.confirmPassword
  /\ ui.result.present /\ ~ui.isProcessing
  /\ \A i \in Slots : calls[i].pc = "idle"

\* C14 Processing flag: isProcessing is true exactly while a handler awaits
\* an encryptFile or decryptFile invocation, and at most one does; no
\* invocation starts while isProcessing is true; the step in which the handler
\* goes on after the invocation has settled leaves isProcessing false and has
\* done exactly one of two things: set a result with success (the invocation
\* was fulfilled) or shown the failure toast (it was rejected).
Awaiting(u) == { i \in Slots : u.awaiting[i].handler # "none" }

FailureTitles == { "Encryption failed", "Decryption failed" }

ProcessingState(u, cs) ==
  /\ u.isProcessing <=> Awaiting(u) # {}
  /\ Cardinality(Awaiting(u)) <= 1
  /\ \A i \in Slots : cs[i].pc # "idle" <=> i \in Awaiting(u)

ProcessingStep ==
  /\ ProcessingState(ui, calls)
  /\ ProcessingState(ui', calls')
  /\ \A i \in Slots :
       (calls[i].pc = "idle" /\ calls'[i].pc # "idle")
         => (~ui.isProcessing /\ ui'.isProcessing)
  /\ \A i \in Slots :
       (i \in Awaiting(ui) /\ i \notin Awaiting(ui'))
         => /\ calls[i].pc = "done"
            /\ ~ui'.isProcessing
            /\ (ui'.result.present /\ ui'.result.success)
                 <=> calls[i].outcome.state = "fulfilled"
            /\ ui'.toast.title \in FailureTitles
                 <=> calls[i].outcome.state = "rejected"
            /\ (ui'.result.present /\ ui'.result.success)
                 <=> ui'.toast.title \notin FailureTitles

ProcessingFlag == [][ProcessingStep]_vars

\* a decryption with a wrong password has just ended: flag down, failure
\* toast, no result
ProcessingFlagWitness ==
  /\ ~ui.isProcessing
  /\ ui.toast.title = "Decryption failed"
  /\ ui.toast.description = DecryptError.message
  /\ ~ui.result.present
  /\ \A i \in Slots : calls[i].pc = "idle"

\* C15 Displayed result matches the selection: in every state of the page in
\* which a result is shown, it was made from the file that is selected (and
\* carries the name derived from that file's name).
ResultMatchesSelection ==
  ui.result.present
    => /\ ui.file.present
       /\ ui.result.of = ui.file
       /\ ui.result.fileName \in {AddSuffix(ui.file.name), StripSuffix(ui.file.name)}

\* C16 Password lifetime: the step in which a handler goes on after a
\* fulfilled encryptFile leaves the password and the confirmation empty;
\* after a fulfilled decryptFile it leaves the password empty; after a
\* rejected invocation it leaves password, confirmation, selected file and
\* result as they are, the result being null, and the toast tells the failure.
PasswordLifetimeStep ==
  \A i \in Slots :
    LET handler == ui.awaiting[i].handler
        outcome == calls[i].outcome
    IN
    (i \in Awaiting(ui) /\ i \notin Awaiting(ui')) =>
      /\ (outcome.state = "fulfilled" /\ handler = "handleEncrypt")
           => (ui'.password = << >> /\ ui'.confirmPassword = << >>)
      /\ (outcome.state = "fulfilled" /\ handler = "handleDecrypt")
           => ui'.password = << >>
      /\ outcome.state = "rejected"
           => /\ ui'.password = ui.password
              /\ ui'.confirmPassword = ui.confirmPassword
              /\ ui'.file = ui.file
              /\ ui'.result = ui.result
              /\ ~ui'.result.present
              /\ ui'.toast.title \in FailureTitles

PasswordLifetime == [][PasswordLifetimeStep]_vars

\* an encryption has just succeeded: the result is shown, both fields are empty
PasswordLifetimeWitness ==
  /\ ui.toast.title = "Encryption successful!"
  /\ ui.result.present /\ ui.result.fileName = FileName("a", 1)
  /\ ui.password = << >> /\ ui.confirmPassword = << >>
  /\ ui.file.present /\ ~ui.isProcessing

====
